---- MODULE Spec2Model ----
(***************************************************************************)
(* A model of CBL_Report.py: the chart catalog, the filter / sort /        *)
(* paginate engine, the per-directory view state kept in                   *)
(* st.session_state, the figure loaders and the batch display.             *)
(*                                                                         *)
(* Python strings are sequences of one-character strings, so that          *)
(* lower(), the substring test, replace() and string comparison are        *)
(* computed and not assumed.  A file's metadata is the 4-tuple of the      *)
(* source, <<name, last_modified, size, path>>; TLA+ indexes it from 1.    *)
(* File names are written without their ".json" suffix.                    *)
(***************************************************************************)
EXTENDS Integers, Sequences, FiniteSets, TLC

VARIABLES
    ss,             \* st.session_state: page prefix -> field -> <<value>> or <<>>
    sel,            \* st.session_state["selected_dir"]: <<>> or <<directory>>
    ui,             \* the widgets the browser shows, as last rendered
    out,            \* what the current script run has shown so far
    pc,             \* "idle" between script runs, "run" when one is due, "batch"
                    \* inside the loop of display_all_charts
    cur,            \* the script run under way, or what stays of the last one
    runs,           \* script runs so far
    call            \* the engine harness: the last call of a pure function

vars == << ss, sel, ui, out, pc, cur, runs, call >>

dashVars == << ss, sel, ui, out, pc, cur, runs >>

(***************************************************************************)
(* Strings                                                                 *)
(***************************************************************************)

\* The characters the model uses, in code-point order (str comparison).
CodePoints ==
    << ".", "/", "0", "1", "2", "3", "4", "5", "6", "7", "8", "9",
       "A", "B", "N", "_", "a", "b", "d", "p" >>

Ord(c) == CHOOSE i \in 1..Len(CodePoints) : CodePoints[i] = c

\* str.lower() on one character
LowerChar(c) == CASE c = "A" -> "a" [] c = "B" -> "b" [] c = "N" -> "n" [] OTHER -> c

\* str.lower()
Lower(s) == [i \in 1..Len(s) |-> LowerChar(s[i])]

\* Python's  sub in s
Contains(s, sub) ==
    \E off \in 0..(Len(s) - Len(sub)) :
        \A j \in 1..Len(sub) : s[off + j] = sub[j]

\* Python's comparison of two str: -1, 0 or 1
RECURSIVE CmpStr(_, _)
CmpStr(a, b) ==
    IF a = <<>> /\ b = <<>> THEN 0
    ELSE IF a = <<>> THEN -1
    ELSE IF b = <<>> THEN 1
    ELSE IF Ord(Head(a)) < Ord(Head(b)) THEN -1
    ELSE IF Ord(Head(a)) > Ord(Head(b)) THEN 1
    ELSE CmpStr(Tail(a), Tail(b))

CmpInt(a, b) == IF a < b THEN -1 ELSE IF a > b THEN 1 ELSE 0

\* Python's comparison of two metadata tuples (str, str, int, str)
CmpTuple(f, g) ==
    IF CmpStr(f[1], g[1]) # 0 THEN CmpStr(f[1], g[1])
    ELSE IF CmpStr(f[2], g[2]) # 0 THEN CmpStr(f[2], g[2])
    ELSE IF CmpInt(f[3], g[3]) # 0 THEN CmpInt(f[3], g[3])
    ELSE CmpStr(f[4], g[4])

\* Python's  s[a:b]  for 0 <= a, 0 <= b
PySlice(s, a, b) ==
    LET e == IF b < Len(s) THEN b ELSE Len(s)
    IN  IF a < e THEN SubSeq(s, a + 1, e) ELSE <<>>

Min(a, b) == IF a < b THEN a ELSE b

Max(a, b) == IF a > b THEN a ELSE b

(***************************************************************************)
(* Python exceptions: a raised exception is [cls, msg]; an except clause   *)
(* catches the classes below it.                                           *)
(***************************************************************************)

ExcParent ==
    ("FileNotFoundError" :> "OSError") @@ ("PermissionError" :> "OSError")
    @@ ("OSError" :> "Exception") @@ ("JSONDecodeError" :> "ValueError")
    @@ ("ValueError" :> "Exception") @@ ("KeyError" :> "Exception")
    @@ ("Exception" :> "BaseException")

RECURSIVE IsSubclass(_, _)
IsSubclass(cls, handler) ==
    IF cls = handler THEN TRUE
    ELSE IF cls \in DOMAIN ExcParent THEN IsSubclass(ExcParent[cls], handler)
    ELSE FALSE

Raise(cls, msg) == [ok |-> FALSE, cls |-> cls, msg |-> msg]

Return(v) == [ok |-> TRUE, value |-> v]

(***************************************************************************)
(* View state: st.session_state, keyed by page prefix and field (the key   *)
(* f"{page_prefix}{key}" of the source; no two schema fields of two        *)
(* subdirectories of one parent concatenate to the same key).  A run's     *)
(* store s = [ss, out] is the session state and what the run has shown.    *)
(***************************************************************************)

\* A message is the chain of its texts, outermost first, and the file name
\* they mention; None is the value of the error field when there is none.
Msg(what, name) == [what |-> what, name |-> name]

None == Msg(<<>>, <<>>)

\* A key of st.session_state holds <<value>>, or <<>> when the key is absent.
Absent == <<>>

Get(ss_, page_prefix, key) == ss_[page_prefix][key][1]

DEFAULT_PAGE_SIZE == 10

\* Path.as_posix().replace('/', '_') inside f"page_{...}_"
get_page_prefix(chart_dir) ==
    <<"p", "_">>
    \o [i \in 1..Len(chart_dir) |-> IF chart_dir[i] = "/" THEN "_" ELSE chart_dir[i]]
    \o <<"_">>

SESSION_STATE_VARS ==
    [ search_query |-> <<>>, selected_types |-> <<>>, page_number |-> 0,
      sort_by |-> "Size", page_size |-> DEFAULT_PAGE_SIZE, all_files |-> <<>>,
      selected_chart |-> None, loading |-> FALSE, error |-> None,
      filtered_files |-> <<>>, use_async |-> FALSE, loading_all_charts |-> FALSE ]

Fields == DOMAIN SESSION_STATE_VARS

\* An initialization that assigns every default anew
init_session_state_anew(ss_, page_prefix) ==
    [ss_ EXCEPT ![page_prefix] = [key \in Fields |-> <<SESSION_STATE_VARS[key]>>]]

init_session_state(ss_, page_prefix) ==
    [ss_ EXCEPT ![page_prefix] =
        [key \in Fields |->
            IF ss_[page_prefix][key] = Absent
            THEN <<SESSION_STATE_VARS[key]>> ELSE ss_[page_prefix][key]]]

update_session_state(ss_, page_prefix, key, value) ==
    [ss_ EXCEPT ![page_prefix][key] = <<value>>]

clear_error(ss_, page_prefix) == update_session_state(ss_, page_prefix, "error", None)

\* Sets the error field and shows the message with its severity.
handle_error(s, page_prefix, error_message, error_type) ==
    [ s EXCEPT !.ss = update_session_state(s.ss, page_prefix, "error", error_message),
               !.out = Append(s.out, [kind |-> error_type, msg |-> error_message]) ]

\* st.plotly_chart, st.markdown, ...: something shown that sets no state
Show(s, kind, name) ==
    [s EXCEPT !.out = Append(s.out, [kind |-> kind, msg |-> Msg(<<>>, name)])]

(***************************************************************************)
(* Figure loader.  A file on disk is "missing", "empty" (zero bytes),      *)
(* "garbage" (text that is no figure) or "valid".                          *)
(***************************************************************************)

FileConds == {"missing", "empty", "garbage", "valid"}

\* The try body of both loaders: open, read, the emptiness test.  Every
\* message of a loader names the one file, which display_chart's report adds.
ReadFigure(cond, name) ==
    IF cond = "missing" THEN Raise("FileNotFoundError", <<"No such file or directory">>)
    ELSE IF cond = "empty" THEN Raise("ValueError", <<"Empty JSON file">>)
    ELSE Return(cond)

\* The three except clauses of both loaders, tried in order.
LoaderHandlers(r, name) ==
    IF r.ok THEN r
    ELSE IF IsSubclass(r.cls, "FileNotFoundError")
        THEN Raise("FileNotFoundError", <<"Chart file not found at">>)
    ELSE IF IsSubclass(r.cls, "JSONDecodeError")
        THEN Raise("JSONDecodeError", <<"Could not decode chart at">>)
    ELSE IF IsSubclass(r.cls, "Exception")
        THEN Raise("Exception",
                   <<"An unexpected error occurred loading chart">> \o r.msg)
    ELSE r

load_figure_json(cond, name) == LoaderHandlers(ReadFigure(cond, name), name)

load_figure_json_async(cond, name) == LoaderHandlers(ReadFigure(cond, name), name)

\* plotly.io.from_json on the text read
from_json(fig_json) ==
    IF fig_json = "valid" THEN Return("figure")
    ELSE Raise("JSONDecodeError", <<"Expecting value">>)

display_chart(s, page_prefix, chart_metadata, use_async, disk) ==
    IF chart_metadata = <<>> \/ chart_metadata[4] = <<>>
    THEN handle_error(s, page_prefix,
                      Msg(<<"Invalid chart metadata provided or file path missing">>, <<>>),
                      "error")
    ELSE
        LET name == chart_metadata[1]
            cond == disk[chart_metadata[4]]
            fig_json == IF use_async THEN load_figure_json_async(cond, name)
                        ELSE load_figure_json(cond, name)
            fig == IF fig_json.ok THEN from_json(fig_json.value) ELSE fig_json
        IN  IF fig.ok
            THEN Show(s, "chart", name)
            ELSE IF IsSubclass(fig.cls, "Exception")
            THEN handle_error(s, page_prefix,
                              Msg(<<"Error displaying chart">> \o fig.msg, name), "error")
            ELSE s

(***************************************************************************)
(* Catalog scanner                                                         *)
(***************************************************************************)

Digits == << "0", "1", "2", "3", "4", "5", "6", "7", "8", "9" >>

\* datetime.fromtimestamp(t).strftime(...): fixed width, zero padded, most
\* significant field first; two digits stand for the nineteen characters.
StrfTime(t) == << Digits[(t \div 10) + 1], Digits[(t % 10) + 1] >>

\* str(file_path) of a file of directory dir
PathStr(dir, name) == dir \o <<"/">> \o name

\* stat is what file_path.stat() does: [raises, st_mtime, st_size], raises
\* being "" or the class of the OSError raised.
get_file_metadata(dir, name, stat) ==
    IF stat.raises = ""
    THEN Return(<< name, StrfTime(stat.st_mtime), stat.st_size, PathStr(dir, name) >>)
    ELSE IF IsSubclass(stat.raises, "FileNotFoundError")
    THEN Return(<< name, <<"N", "/", "A">>, 0, PathStr(dir, name) >>)
    ELSE Raise("Exception", <<"Error getting metadata for">>)

(***************************************************************************)
(* Filter / sort / paginate engine                                         *)
(***************************************************************************)

SORT_KEYS ==
    ("Name" :> "lower_name") @@ ("Last Modified" :> "last_modified") @@ ("Size" :> "size")

\* dict.get(key): the value, or None (here "None") for a key the dict lacks
DictGet(d, k) == IF k \in DOMAIN d THEN d[k] ELSE "None"

\* The comparison of two files under a key function of SORT_KEYS; under
\* key=None sorted() compares the tuples themselves.
KeyCmp(key, f, g) ==
    CASE key = "lower_name" -> CmpStr(Lower(f[1]), Lower(g[1]))
      [] key = "last_modified" -> CmpStr(f[2], g[2])
      [] key = "size" -> CmpInt(f[3], g[3])
      [] OTHER -> CmpTuple(f, g)

\* x goes strictly before y
GoesBefore(key, reverse, x, y) ==
    IF reverse THEN KeyCmp(key, x, y) = 1 ELSE KeyCmp(key, x, y) = -1

\* sorted() is stable, with reverse=True too: x is put before the first
\* element it goes strictly before.
InsertSorted(res, x, key, reverse) ==
    LET before == {i \in 1..Len(res) : GoesBefore(key, reverse, x, res[i])}
        pos == IF before = {} THEN Len(res) + 1
               ELSE CHOOSE i \in before : \A j \in before : i <= j
    IN  SubSeq(res, 1, pos - 1) \o <<x>> \o SubSeq(res, pos, Len(res))

RECURSIVE SortedFrom(_, _, _, _)
SortedFrom(res, rest, key, reverse) ==
    IF rest = <<>> THEN res
    ELSE SortedFrom(InsertSorted(res, Head(rest), key, reverse), Tail(rest), key, reverse)

\* sorted(files, key=key, reverse=reverse)
sorted(files, key, reverse) == SortedFrom(<<>>, files, key, reverse)

\* Path("").as_posix()
HerePath == <<".">>

\* A sort with reverse=True under every key
sort_files_reversed(s, files, sort_by) ==
    [s |-> s, value |-> sorted(files, DictGet(SORT_KEYS, sort_by), TRUE)]

\* Returns [s, value]: the store after the call and the list returned.
sort_files(s, files, sort_by) ==
    LET r == Return(sorted(files, DictGet(SORT_KEYS, sort_by), sort_by # "Name"))
    IN  IF r.ok THEN [s |-> s, value |-> r.value]
        ELSE IF IsSubclass(r.cls, "KeyError")
        THEN [s |-> handle_error(s, get_page_prefix(HerePath),
                                 Msg(<<"Invalid sort key", "Using default sorting.">>, <<>>),
                                 "warning"),
              value |-> files]
        ELSE [s |-> s, value |-> files]

\* The list comprehension of filter_charts
RECURSIVE Comprehension(_, _, _)
Comprehension(files_metadata, search_term, selected_types) ==
    IF files_metadata = <<>> THEN <<>>
    ELSE LET f == Head(files_metadata)
             keep == /\ Contains(Lower(f[1]), search_term)
                     /\ \/ selected_types = <<>>
                        \/ \E i \in 1..Len(selected_types) : Contains(f[1], selected_types[i])
         IN  (IF keep THEN <<f>> ELSE <<>>)
             \o Comprehension(Tail(files_metadata), search_term, selected_types)

\* A filter that does not lower-case the search text
filter_charts_as_typed(files_metadata, search_query, selected_types) ==
    IF search_query = <<>> /\ selected_types = <<>>
    THEN files_metadata
    ELSE Comprehension(files_metadata, search_query, selected_types)

filter_charts(files_metadata, search_query, selected_types) ==
    LET search_term == IF search_query # <<>> THEN Lower(search_query) ELSE <<>>
    IN  IF search_term = <<>> /\ selected_types = <<>>
        THEN files_metadata
        ELSE Comprehension(files_metadata, search_term, selected_types)

\* start_index, end_index and the slice of main and display_all_charts
PageSlice(filtered_files, page_number, page_size) ==
    LET start_index == page_number * page_size
        end_index == Min((page_number + 1) * page_size, Len(filtered_files))
    IN  PySlice(filtered_files, start_index, end_index)

\* A page count rounded down
TotalPagesFloor(n, page_size) == n \div page_size

\* total_pages of display_pagination_controls
TotalPages(n, page_size) == (n + page_size - 1) \div page_size

\* The options of the "Page Size" box
PAGE_SIZES == <<5, 10, 20>>

NoCall == [fn |-> "none"]

(***************************************************************************)
(* The file system under assets/: two chart directories.  The files of     *)
(* the first are stable; stat on a file of the second may fail while the   *)
(* catalog is scanned.                                                     *)
(***************************************************************************)

D1 == <<"a", "/", "1">>

D2 == <<"a", "/", "2">>

\* [d for d in parent_directory.iterdir() if d.is_dir()]
chart_directories == <<D1, D2>>

Dirs == {chart_directories[i] : i \in 1..Len(chart_directories)}

\* The files of a directory in glob order: name, st_mtime, st_size, content.
FilesOf(dir) ==
    IF dir = D1
    THEN << [name |-> <<"a", "_", "1">>, st_mtime |-> 7, st_size |-> 30, cond |-> "valid"],
            [name |-> <<"a", "_", "2">>, st_mtime |-> 12, st_size |-> 0, cond |-> "empty"],
            [name |-> <<"B", "_", "1">>, st_mtime |-> 7, st_size |-> 30, cond |-> "garbage"],
            [name |-> <<"B", "_", "2">>, st_mtime |-> 3, st_size |-> 5, cond |-> "missing"],
            [name |-> <<"a", "_", "3">>, st_mtime |-> 9, st_size |-> 12, cond |-> "valid"],
            [name |-> <<"B", "_", "3">>, st_mtime |-> 1, st_size |-> 8, cond |-> "valid"] >>
    ELSE << [name |-> <<"b", "_", "1">>, st_mtime |-> 4, st_size |-> 3, cond |-> "valid"],
            [name |-> <<"b", "_", "2">>, st_mtime |-> 5, st_size |-> 4, cond |-> "valid"] >>

\* What open() and read() find at a path when a chart is loaded
Disk ==
    [ path \in UNION { {PathStr(d, FilesOf(d)[i].name) : i \in 1..Len(FilesOf(d))} : d \in Dirs }
        |-> LET d == CHOOSE e \in Dirs : \E i \in 1..Len(FilesOf(e)) : PathStr(e, FilesOf(e)[i].name) = path
                i == CHOOSE j \in 1..Len(FilesOf(d)) : PathStr(d, FilesOf(d)[j].name) = path
            IN  FilesOf(d)[i].cond ]

StatOutcomes == {"", "FileNotFoundError", "PermissionError"}

\* What one scan of a directory meets: per file, what stat raises
Fates(dir) ==
    IF dir = D2 THEN [1..Len(FilesOf(dir)) -> StatOutcomes]
    ELSE {[i \in 1..Len(FilesOf(dir)) |-> ""]}

(***************************************************************************)
(* main and the functions it calls                                         *)
(***************************************************************************)

\* Returns [s, value]; value is the list of the directory's entries.
get_all_json_files(s, directory, exists) ==
    IF ~exists
    THEN [s |-> handle_error(s, get_page_prefix(directory),
                             Msg(<<"Directory not found at">>, directory), "error"),
          value |-> <<>>]
    ELSE [s |-> s, value |-> FilesOf(directory)]

\* [get_file_metadata(f) for f in all_files_paths]: the first exception
\* raised leaves the comprehension.
ListMetadata(dir, paths, fate) ==
    LET rs == [i \in 1..Len(paths) |->
                  get_file_metadata(dir, paths[i].name,
                                    [raises |-> fate[i], st_mtime |-> paths[i].st_mtime,
                                     st_size |-> paths[i].st_size])]
        bad == {i \in 1..Len(paths) : ~rs[i].ok}
    IN  IF bad = {} THEN Return([i \in 1..Len(paths) |-> rs[i].value])
        ELSE rs[CHOOSE i \in bad : \A j \in bad : i <= j]

\* f[0].split('_')[0]
TypeOf(name) ==
    LET us == {i \in 1..Len(name) : name[i] = "_"}
    IN  IF us = {} THEN name ELSE SubSeq(name, 1, (CHOOSE i \in us : \A j \in us : i <= j) - 1)

ShowAll == <<"Show All Charts">>

NoWidgets ==
    [ filters |-> FALSE, types |-> {}, chart_options |-> <<>>, chart_sel |-> ShowAll,
      cancel |-> "absent", prev |-> "absent", next |-> "absent",
      page_input |-> 0, page_max |-> 0 ]

NoEvent == [type |-> "none", v |-> <<>>]

\* What the sidebar widgets return in a run started by event ev: the value
\* the user just set, or else the value the widget was built with.
display_filters(ss_, page_prefix, ev) ==
    [ search_query |-> IF ev.type = "search" THEN ev.v ELSE Get(ss_, page_prefix, "search_query"),
      selected_types |-> IF ev.type = "types" THEN ev.v ELSE Get(ss_, page_prefix, "selected_types"),
      sort_by |-> IF ev.type = "sort" THEN ev.v ELSE Get(ss_, page_prefix, "sort_by"),
      page_size |-> Max(1, IF ev.type = "page_size" THEN ev.v ELSE Get(ss_, page_prefix, "page_size")),
      use_async |-> IF ev.type = "async" THEN ~Get(ss_, page_prefix, "use_async")
                    ELSE Get(ss_, page_prefix, "use_async") ]

\* The "Previous" button: returns True in the run its click started.
PreviousButton(s, page_prefix, ev) ==
    IF ev.type = "prev" /\ ~(Get(s.ss, page_prefix, "page_number") <= 0
                             \/ Get(s.ss, page_prefix, "loading"))
    THEN [s EXCEPT !.ss = update_session_state(s.ss, page_prefix, "page_number",
                                               Get(s.ss, page_prefix, "page_number") - 1)]
    ELSE s

\* The "Next" button
NextButton(s, page_prefix, next_disabled, ev) ==
    IF ev.type = "next" /\ ~next_disabled
    THEN [s EXCEPT !.ss = update_session_state(s.ss, page_prefix, "page_number",
                                               Get(s.ss, page_prefix, "page_number") + 1)]
    ELSE s

Enabled(disabled) == IF disabled THEN "disabled" ELSE "enabled"

\* The "Go to Page" box and the "Next" button, s1 being the store after the
\* "Previous" button.  st.number_input raises when its value lies above
\* max_value; what it returns is read by its own callback only.
PageBoxAndNext(s1, page_prefix, prev_disabled, next_disabled, total_pages, ev) ==
    IF Get(s1.ss, page_prefix, "page_number") + 1 > total_pages
       \/ Get(s1.ss, page_prefix, "page_number") + 1 < 1
    THEN [ s |-> s1, raised |-> TRUE, prev |-> Enabled(prev_disabled),
           next |-> "absent", page_input |-> 0, page_max |-> 0 ]
    ELSE [ s |-> NextButton(s1, page_prefix, next_disabled, ev), raised |-> FALSE,
           prev |-> Enabled(prev_disabled), next |-> Enabled(next_disabled),
           page_input |-> IF ev.type = "goto" THEN ev.v
                          ELSE Get(s1.ss, page_prefix, "page_number") + 1,
           page_max |-> total_pages ]

\* Returns [s, prev, next, page_input, page_max, raised].
display_pagination_controls(s, page_prefix, filtered_files, page_size, ev) ==
    LET pn0 == Get(s.ss, page_prefix, "page_number")
        end_index == Min((pn0 + 1) * page_size, Len(filtered_files))
    IN  PageBoxAndNext(PreviousButton(s, page_prefix, ev), page_prefix,
                       pn0 <= 0 \/ Get(s.ss, page_prefix, "loading"),
                       end_index >= Len(filtered_files) \/ Get(s.ss, page_prefix, "loading"),
                       TotalPages(Len(filtered_files), page_size), ev)

\* A finally clause that leaves the flag as it is
DacFinally_skipped(s, page_prefix) == s

\* The finally clause of display_all_charts
DacFinally(s, page_prefix) ==
    [s EXCEPT !.ss = update_session_state(s.ss, page_prefix, "loading_all_charts", FALSE)]

\* The page display_all_charts slices for itself
DacPage(s, page_prefix, filtered_files) ==
    PageSlice(filtered_files, Get(s.ss, page_prefix, "page_number"),
              Get(s.ss, page_prefix, "page_size"))

\* display_all_charts up to its loop.  Returns [loop, s, items].
DacBegin(s, page_prefix, filtered_files) ==
    IF filtered_files = <<>>
    THEN [ loop |-> FALSE, items |-> <<>>,
           s |-> DacFinally(handle_error(s, page_prefix, Msg(<<"No charts to display">>, <<>>), "info"),
                            page_prefix) ]
    ELSE IF DacPage(s, page_prefix, filtered_files) = <<>>
    THEN [ loop |-> FALSE, items |-> <<>>,
           s |-> DacFinally(handle_error(s, page_prefix,
                                         Msg(<<"No charts on this page">>, <<>>), "info"),
                            page_prefix) ]
    ELSE [ loop |-> TRUE, items |-> DacPage(s, page_prefix, filtered_files), s |-> s ]

\* A pass that gives the batch up when its chart fails
DacItem_stopping(s, page_prefix, chart_metadata, use_async) ==
    IF Get(display_chart(Show(s, "metadata", chart_metadata[1]), page_prefix, chart_metadata,
                         use_async, Disk).ss, page_prefix, "error") # Get(s.ss, page_prefix, "error")
    THEN DacFinally(display_chart(Show(s, "metadata", chart_metadata[1]), page_prefix,
                                  chart_metadata, use_async, Disk), page_prefix)
    ELSE display_chart(Show(s, "metadata", chart_metadata[1]), page_prefix, chart_metadata,
                       use_async, Disk)

\* One pass of the loop of display_all_charts over chart_metadata
DacItem(s, page_prefix, chart_metadata, use_async) ==
    display_chart(Show(s, "metadata", chart_metadata[1]), page_prefix, chart_metadata,
                  use_async, Disk)

\* The loop of display_all_charts from item i on, to its end
RECURSIVE DacLoop(_, _, _, _, _)
DacLoop(s, page_prefix, items, i, use_async) ==
    IF i > Len(items) \/ ~Get(s.ss, page_prefix, "loading_all_charts") THEN s
    ELSE DacLoop(DacItem(s, page_prefix, items[i], use_async), page_prefix, items, i + 1,
                 use_async)

\* The loop of display_all_charts and what follows it
DacRun(b, page_prefix, use_async) ==
    IF b.loop THEN DacFinally(DacLoop(b.s, page_prefix, b.items, 1, use_async), page_prefix)
    ELSE b.s

\* display_all_charts as one call.  On a namespace that was not
\* initialized, st.session_state[...] raises KeyError, which the except
\* clause reports before the finally clause runs.
display_all_charts(s, page_prefix, filtered_files, use_async) ==
    IF filtered_files # <<>> /\ s.ss[page_prefix]["page_number"] = Absent
    THEN DacFinally(handle_error(s, page_prefix,
                                 Msg(<<"An unexpected error occurred while displaying charts",
                                       "KeyError">>, <<>>),
                                 "error"),
                    page_prefix)
    ELSE DacRun(DacBegin(s, page_prefix, filtered_files), page_prefix, use_async)

\* The value of the "Select a chart" box: the user's choice, kept while the
\* box is the same box (same directory, same options), else its first option.
ChartSelect(ui_, same_dir, chart_names, ev) ==
    IF ev.type = "chart" THEN ev.v
    ELSE IF same_dir /\ ui_.chart_options = chart_names THEN ui_.chart_sel
    ELSE ShowAll

(***************************************************************************)
(* main(chart_dir), as the steps it takes in order.  Each step maps the    *)
(* run c to the run after it: c.s is the store, c.ui the widgets rendered  *)
(* so far, c.ui0 those of the previous run, c.ev the user's action that    *)
(* started the run, c.fate what the scan meets, c.next "go" while main     *)
(* goes on, "end" once it has returned, "batch" when the loop of           *)
(* display_all_charts is to run.                                           *)
(***************************************************************************)

NoValues ==
    [ search_query |-> <<>>, selected_types |-> <<>>, sort_by |-> "", page_size |-> 0,
      use_async |-> FALSE ]

NoRun ==
    [ s |-> [ss |-> <<>>, out |-> <<>>], ui |-> NoWidgets, ui0 |-> NoWidgets,
      same_dir |-> FALSE, dir |-> <<>>, prefix |-> <<>>, ev |-> NoEvent, fate |-> <<>>,
      next |-> "go", w |-> NoValues, filtered |-> <<>>, page |-> <<>>,
      page_number |-> 0, show_all |-> FALSE, i |-> 0 ]

AllFiles(c) == Get(c.s.ss, c.prefix, "all_files")

\* page_prefix = get_page_prefix(chart_dir); init_session_state(page_prefix)
MainInit(c) ==
    [c EXCEPT !.prefix = get_page_prefix(c.dir),
              !.s.ss = init_session_state(c.s.ss, get_page_prefix(c.dir))]

\* update_session_state(page_prefix, "all_files", ...), or the exception of
\* get_file_metadata caught by main's except clause
Catalogued(c, m) ==
    IF m.ok
    THEN [c EXCEPT !.s.ss = update_session_state(c.s.ss, c.prefix, "all_files", m.value)]
    ELSE [c EXCEPT !.s = handle_error(c.s, c.prefix,
                                      Msg(<<"An unexpected error occurred">> \o m.msg, <<>>),
                                      "error"),
                   !.next = "end"]

Listed(c, g) ==
    IF g.value = <<>> THEN [c EXCEPT !.s = g.s, !.next = "end"]
    ELSE Catalogued([c EXCEPT !.s = g.s], ListMetadata(c.dir, g.value, c.fate))

\* "Load all files only if not already loaded."
MainScan(c) ==
    IF AllFiles(c) # <<>> THEN c
    ELSE Listed(c, get_all_json_files(c.s, c.dir, TRUE))

\* if not all_files: ... return
MainNoFiles(c) ==
    IF c.next # "go" \/ AllFiles(c) # <<>> THEN c
    ELSE [c EXCEPT !.s = handle_error(c.s, c.prefix,
                                      Msg(<<"No chart files found in the selected directory.">>, <<>>),
                                      "warning"),
                   !.next = "end"]

\* "Update session state based on sidebar interactions"
StoreFilters(c, w) ==
    [c EXCEPT !.w = w,
              !.s.ss = update_session_state(
                         update_session_state(
                           update_session_state(
                             update_session_state(
                               update_session_state(c.s.ss, c.prefix, "search_query", w.search_query),
                               c.prefix, "selected_types", w.selected_types),
                             c.prefix, "sort_by", w.sort_by),
                           c.prefix, "page_size", w.page_size),
                         c.prefix, "use_async", w.use_async)]

\* file_types and the sidebar
MainFilters(c) ==
    IF c.next # "go" THEN c
    ELSE StoreFilters([c EXCEPT !.ui.filters = TRUE,
                                !.ui.types = {TypeOf(AllFiles(c)[i][1]) : i \in 1..Len(AllFiles(c))}],
                      display_filters(c.s.ss, c.prefix, c.ev))

\* update_session_state(page_prefix, "filtered_files", ...); if not filtered_files: ... return
Filtered(c, srt) ==
    IF srt.value = <<>>
    THEN [c EXCEPT !.s = handle_error(
                            [srt.s EXCEPT !.ss = update_session_state(srt.s.ss, c.prefix,
                                                                      "filtered_files", srt.value)],
                            c.prefix,
                            Msg(<<"No charts match the current filter criteria.">>, <<>>), "info"),
                   !.next = "end"]
    ELSE [c EXCEPT !.s = [srt.s EXCEPT !.ss = update_session_state(srt.s.ss, c.prefix,
                                                                   "filtered_files", srt.value)],
                   !.filtered = srt.value]

\* "Filter and sort files"
MainFilterSort(c) ==
    IF c.next # "go" THEN c
    ELSE Filtered(c, sort_files(c.s,
                                filter_charts(AllFiles(c), c.w.search_query, c.w.selected_types),
                                c.w.sort_by))

\* "Pagination logic"
MainSlice(c) ==
    IF c.next # "go" THEN c
    ELSE [c EXCEPT !.page_number = Get(c.s.ss, c.prefix, "page_number"),
                   !.page = PageSlice(c.filtered, Get(c.s.ss, c.prefix, "page_number"),
                                      c.w.page_size)]

ChartNames(c) == [i \in 1..Len(c.page) |-> c.page[i][1]]

\* The "Select a chart" box; on an empty page, the report and the flag reset.
MainChartBox(c) ==
    IF c.next # "go" THEN c
    ELSE IF c.page = <<>>
    THEN [c EXCEPT !.s = [ss |-> update_session_state(
                                   handle_error(c.s, c.prefix,
                                                Msg(<<"No charts match the selected filters.">>, <<>>),
                                                "info").ss,
                                   c.prefix, "loading_all_charts", FALSE),
                          out |-> handle_error(c.s, c.prefix,
                                               Msg(<<"No charts match the selected filters.">>, <<>>),
                                               "info").out]]
    ELSE [c EXCEPT !.ui.chart_options = ChartNames(c),
                   !.ui.chart_sel = ChartSelect(c.ui0, c.same_dir, ChartNames(c), c.ev),
                   !.show_all = ChartSelect(c.ui0, c.same_dir, ChartNames(c), c.ev) = ShowAll]

\* display_all_charts entered: the loop is to run, or it has returned.
BatchBegun(c, b) ==
    IF b.loop THEN [c EXCEPT !.s = b.s, !.page = b.items, !.i = 1, !.next = "batch"]
    ELSE [c EXCEPT !.s = b.s]

\* The index in the page of the chart selected
ChartIndex(c) == CHOOSE i \in 1..Len(c.page) : c.page[i][1] = c.ui.chart_sel

\* "Display selected chart or all charts in current page"
MainShow(c) ==
    IF c.next # "go" \/ c.page = <<>> THEN c
    ELSE IF c.show_all
    THEN IF Get(c.s.ss, c.prefix, "loading_all_charts") THEN c
         ELSE BatchBegun(c, DacBegin([c.s EXCEPT !.ss = update_session_state(
                                                   c.s.ss, c.prefix, "loading_all_charts", TRUE)],
                                     c.prefix, c.filtered))
    ELSE IF \E i \in 1..Len(c.page) : c.page[i][1] = c.ui.chart_sel
    THEN [c EXCEPT !.s = DacItem(c.s, c.prefix, c.page[ChartIndex(c)], c.w.use_async)]
    ELSE c

\* The "Cancel Loading" button, rendered when "Show All Charts" is selected
MainCancelButton(c) ==
    IF c.next # "go" \/ ~c.show_all THEN c
    ELSE IF Get(c.s.ss, c.prefix, "loading_all_charts")
    THEN [c EXCEPT !.ui.cancel = "enabled",
                   !.s.ss = IF c.ev.type = "cancel"
                            THEN update_session_state(c.s.ss, c.prefix, "loading_all_charts", FALSE)
                            ELSE c.s.ss]
    ELSE [c EXCEPT !.ui.cancel = "disabled"]

\* The controls rendered; an exception of theirs is caught by main's except.
Paginated(c, pg) ==
    [c EXCEPT !.s = IF pg.raised
                    THEN handle_error(pg.s, c.prefix,
                                      Msg(<<"An unexpected error occurred", "value above max_value">>,
                                          <<>>),
                                      "error")
                    ELSE pg.s,
              !.ui.prev = pg.prev, !.ui.next = pg.next,
              !.ui.page_input = pg.page_input, !.ui.page_max = pg.page_max,
              !.next = "end"]

\* "Pagination controls"
MainPagination(c) ==
    IF c.next # "go" THEN c
    ELSE Paginated(c, display_pagination_controls(c.s, c.prefix, c.filtered, c.w.page_size, c.ev))

\* main after display_all_charts has returned
MainAfterBatch(c) == MainPagination(MainCancelButton(c))

\* main up to its end or to the loop of display_all_charts
main(c) ==
    MainAfterBatch(MainShow(MainChartBox(MainSlice(MainFilterSort(
        MainFilters(MainNoFiles(MainScan(MainInit(c)))))))))

(***************************************************************************)
(* Script runs.  The user's action on a widget makes a run due; the run    *)
(* calls the widget's on_change callback, registered by the previous run,  *)
(* and then the script from the top, to its end.                           *)
(***************************************************************************)

MaxRuns == 5

MaxSelected == 1

\* Texts the user types in the search box
SearchInputs == { <<>>, <<"b">> }

\* The choices of the type filter: lists of at most MaxSelected options
TypeChoices(types) ==
    {<<>>} \cup {<<t>> : t \in types}
    \cup {<<x[1], x[2]>> : x \in {y \in types \X types : MaxSelected >= 2 /\ CmpStr(y[1], y[2]) = -1}}

\* The on_change callback of the widget the user acted on.  The callbacks
\* were registered by the previous run: page_prefix, page_number_input and
\* the global selected_dir are that run's.
Callback(ss_, ui_, shown_dir, ev) ==
    CASE ev.type \in {"search", "types", "sort", "height", "page_size", "async"} ->
            clear_error(ss_, get_page_prefix(shown_dir))
      [] ev.type = "goto" ->
            update_session_state(ss_, get_page_prefix(shown_dir), "page_number", ui_.page_input - 1)
      [] ev.type = "dir" ->
            update_session_state(ss_, get_page_prefix(shown_dir), "page_number", 0)
      [] OTHER -> ss_

BlankSession == [p \in {get_page_prefix(d) : d \in Dirs \cup {HerePath}} |-> [k \in Fields |-> Absent]]

InitDash ==
    /\ ss = BlankSession
    /\ sel = <<>>
    /\ ui = NoWidgets
    /\ out = <<>>
    /\ pc = "idle"
    /\ cur = NoRun
    /\ runs = 0

\* The user acts on a widget (or opens the page): a script run is due.
UserAction(ev) ==
    /\ pc = "idle"
    /\ runs < MaxRuns
    /\ pc' = "run"
    /\ cur' = [NoRun EXCEPT !.ev = ev]
    /\ runs' = runs + 1
    /\ UNCHANGED << ss, sel, ui, out, call >>

ShownPrefix == get_page_prefix(sel[1])

\* The browser opens the page: the first run.
Load == sel = <<>> /\ UserAction([type |-> "load", v |-> <<>>])

ChangeSearch ==
    /\ ui.filters
    /\ \E q \in SearchInputs \ {Get(ss, ShownPrefix, "search_query")} :
          UserAction([type |-> "search", v |-> q])

ChangeTypes ==
    /\ ui.filters
    /\ \E T \in TypeChoices(ui.types) \ {Get(ss, ShownPrefix, "selected_types")} :
          UserAction([type |-> "types", v |-> T])

ChangeSort ==
    /\ ui.filters
    /\ \E k \in DOMAIN SORT_KEYS \ {Get(ss, ShownPrefix, "sort_by")} :
          UserAction([type |-> "sort", v |-> k])

ChangeHeight == ui.filters /\ UserAction([type |-> "height", v |-> <<>>])

ChangePageSize ==
    /\ ui.filters
    /\ \E i \in 1..Len(PAGE_SIZES) :
          /\ PAGE_SIZES[i] # Get(ss, ShownPrefix, "page_size")
          /\ UserAction([type |-> "page_size", v |-> PAGE_SIZES[i]])

ToggleAsync == ui.filters /\ UserAction([type |-> "async", v |-> <<>>])

ClickPrevious == ui.prev = "enabled" /\ UserAction([type |-> "prev", v |-> <<>>])

ClickNext == ui.next = "enabled" /\ UserAction([type |-> "next", v |-> <<>>])

GoToPage ==
    /\ ui.page_input > 0
    /\ \E v \in (1..ui.page_max) \ {ui.page_input} : UserAction([type |-> "goto", v |-> v])

SelectDashboard ==
    /\ sel # <<>>
    /\ \E d \in Dirs \ {sel[1]} : UserAction([type |-> "dir", v |-> d])

SelectChart ==
    /\ ui.chart_options # <<>>
    /\ \E c \in ({ShowAll} \cup {ui.chart_options[i] : i \in 1..Len(ui.chart_options)})
                \ {ui.chart_sel} :
          UserAction([type |-> "chart", v |-> c])

\* The directory the "Select Dashboard" box returns
SelectedDir(ev) ==
    IF ev.type = "dir" THEN ev.v
    ELSE IF sel = <<>> THEN chart_directories[1]
    ELSE sel[1]

\* The scan of a directory meets a fate only when the run scans it.
FatesOfRun(ss_, dir) ==
    IF ss_[get_page_prefix(dir)]["all_files"] \in {Absent, << <<>> >>}
    THEN Fates(dir) ELSE {[i \in 1..Len(FilesOf(dir)) |-> ""]}

\* The run as the script starts: the callback has run, the directory box
\* has returned, st.session_state["selected_dir"] is set.
StartOfRun(ev, fate) ==
    [NoRun EXCEPT !.s = [ss |-> IF sel = <<>> THEN ss ELSE Callback(ss, ui, sel[1], ev),
                         out |-> <<>>],
                  !.ui0 = ui, !.same_dir = (sel = <<SelectedDir(ev)>>),
                  !.dir = SelectedDir(ev), !.ev = ev, !.fate = fate]

\* While the loop runs the browser still shows the buttons of the last run.
ShownDuring(c) ==
    IF c.next = "batch"
    THEN [c.ui EXCEPT !.cancel = c.ui0.cancel, !.prev = c.ui0.prev, !.next = c.ui0.next,
                      !.page_input = c.ui0.page_input, !.page_max = c.ui0.page_max]
    ELSE c.ui

\* What stays of a run that has ended: what its scan met, the list it
\* filtered, the page index and page size it sliced with, the page.
Ended(c) ==
    [NoRun EXCEPT !.dir = c.dir, !.fate = c.fate, !.filtered = c.filtered,
                  !.page_number = c.page_number, !.w = c.w, !.page = c.page]

\* The state after the steps that took the run to c
Ran(c) ==
    /\ ss' = c.s.ss
    /\ out' = c.s.out
    /\ ui' = ShownDuring(c)
    /\ pc' = IF c.next = "batch" THEN "batch" ELSE "idle"
    /\ cur' = IF c.next = "batch" THEN c ELSE Ended(c)

\* One script run, up to its end or to the loop of display_all_charts.
RunScript ==
    /\ pc = "run"
    /\ \E fate \in FatesOfRun(ss, SelectedDir(cur.ev)) :
          Ran(main(StartOfRun(cur.ev, fate)))
    /\ sel' = <<SelectedDir(cur.ev)>>
    /\ UNCHANGED << runs, call >>

\* One pass of the loop of display_all_charts: the flag is read first.
BatchItem ==
    /\ pc = "batch"
    /\ cur.i <= Len(cur.page)
    /\ Get(ss, cur.prefix, "loading_all_charts")
    /\ ss' = DacItem([ss |-> ss, out |-> out], cur.prefix, cur.page[cur.i], cur.w.use_async).ss
    /\ out' = DacItem([ss |-> ss, out |-> out], cur.prefix, cur.page[cur.i], cur.w.use_async).out
    /\ cur' = [cur EXCEPT !.i = cur.i + 1]
    /\ UNCHANGED << sel, ui, pc, runs, call >>

\* The loop ends (exhausted, or the flag read False); the finally clause;
\* then main goes on to its end.
BatchEnd ==
    /\ pc = "batch"
    /\ \/ cur.i > Len(cur.page)
       \/ ~Get(ss, cur.prefix, "loading_all_charts")
    /\ Ran(MainAfterBatch([cur EXCEPT !.s = DacFinally([ss |-> ss, out |-> out], cur.prefix),
                                      !.next = "go"]))
    /\ UNCHANGED << sel, runs, call >>

Next ==
    \/ Load
    \/ ChangeSearch
    \/ ChangeTypes
    \/ ChangeSort
    \/ ChangeHeight
    \/ ChangePageSize
    \/ ToggleAsync
    \/ ClickPrevious
    \/ ClickNext
    \/ GoToPage
    \/ SelectDashboard
    \/ SelectChart
    \/ RunScript
    \/ BatchItem
    \/ BatchEnd

Init == InitDash /\ call = NoCall

Spec == Init /\ [][Next]_vars

(***************************************************************************)
(* The engine harness: each action applies one function of the source to   *)
(* inputs drawn from bounded sets and records the call.                    *)
(***************************************************************************)

MaxFiles == 3

MaxLen == 12

MaxPageSize == 6

File(name, last_modified, size) == << name, last_modified, size, PathStr(<<"d">>, name) >>

\* Names that differ in case only, equal sizes, equal times, the sentinel.
Pool ==
    { File(<<"B", "_", "1">>, StrfTime(7), 30),
      File(<<"a", "_", "2">>, <<"N", "/", "A">>, 0),
      File(<<"b", "_", "1">>, StrfTime(12), 30),
      File(<<"A", "_", "b">>, StrfTime(7), 5) }

FileLists ==
    UNION { {L \in [1..n -> Pool] : \A i, j \in 1..n : i # j => L[i] # L[j]} : n \in 0..MaxFiles }

Queries == { <<>>, <<"b">>, <<"B">>, <<"_", "1">>, <<"a", "_">>, <<"B", "_", "1", "2">> }

TypeLists ==
    { <<>>, << <<"B">> >>, << <<"a">> >>, << <<"A">> >>, << <<"B">>, <<"a">> >>, << <<"d">> >> }

SortInputs == DOMAIN SORT_KEYS \cup {"Bogus"}

PageSizeInputs == 1..MaxPageSize \cup {PAGE_SIZES[i] : i \in 1..Len(PAGE_SIZES)}

HarnessPrefix == get_page_prefix(<<"d">>)

\* A store with the namespaces a call of the harness may write, the
\* directory's initialized as main does before any other call
HarnessStore ==
    [ ss |-> init_session_state(
                [p \in {HarnessPrefix, get_page_prefix(HerePath)} |-> [k \in Fields |-> Absent]],
                HarnessPrefix),
      out |-> <<>> ]

CallFilter ==
    /\ call = NoCall
    /\ UNCHANGED dashVars
    /\ \E L \in FileLists, q \in Queries, T \in TypeLists :
        call' = [ fn |-> "filter_charts", files |-> L, search_query |-> q,
                  selected_types |-> T, result |-> filter_charts(L, q, T) ]

CallSort ==
    /\ call = NoCall
    /\ UNCHANGED dashVars
    /\ \E L \in FileLists, k \in SortInputs :
        LET r == sort_files(HarnessStore, L, k)
        IN  call' = [ fn |-> "sort_files", files |-> L, sort_by |-> k,
                      result |-> r.value, shown |-> r.s.out ]

CallPaginate ==
    /\ call = NoCall
    /\ UNCHANGED dashVars
    /\ \E n \in 0..MaxLen, p \in PageSizeInputs :
        LET files == [i \in 1..n |-> i]
            total_pages == TotalPages(n, p)
        IN  call' = [ fn |-> "paginate", files |-> files, page_size |-> p,
                      total_pages |-> total_pages,
                      pages |-> [k \in 1..total_pages |-> PageSlice(files, k - 1, p)] ]

CallDisplay ==
    /\ call = NoCall
    /\ UNCHANGED dashVars
    /\ \E cond \in FileConds, use_async \in BOOLEAN :
        LET f == File(<<"a", "_", "2">>, StrfTime(7), 5)
            s == display_chart(HarnessStore, HarnessPrefix, f, use_async,
                               [path \in {f[4]} |-> cond])
        IN  call' = [ fn |-> "display_chart", cond |-> cond, use_async |-> use_async,
                      shown |-> s.out, error |-> Get(s.ss, HarnessPrefix, "error") ]



InitEngine == InitDash /\ call = NoCall

NextEngine == CallFilter \/ CallSort \/ CallPaginate \/ CallDisplay

SpecEngine == InitEngine /\ [][NextEngine]_vars

(***************************************************************************)
(* Claims on the engine (checked under SpecEngine)                         *)
(***************************************************************************)

RECURSIVE Concat(_)
Concat(pages) == IF pages = <<>> THEN <<>> ELSE Head(pages) \o Concat(Tail(pages))

\* ceil(n / p): the least t with t * p >= n
Ceil(n, p) == CHOOSE t \in 0..n : t * p >= n /\ \A u \in 0..n : u * p >= n => t <= u

\* C2: for every list of length n and every page size p > 0, the slices of
\* the page indices 0 .. total_pages-1, concatenated in order, are the list
\* itself (no gap, no duplicate), and total_pages = ceil(n / p).
C2_PagesPartitionList ==
    call.fn = "paginate" =>
        /\ call.total_pages = Ceil(Len(call.files), call.page_size)
        /\ Len(call.pages) = call.total_pages
        /\ Concat(call.pages) = call.files

\* A list of three pages whose last page is partly filled.
C2_Witness ==
    /\ call.fn = "paginate"
    /\ call.total_pages = 3
    /\ call.page_size = 5
    /\ Len(call.pages[3]) = 2

\* The name contains s, compared without regard to case.
ContainsNoCase(name, s) ==
    \E off \in 0..(Len(name) - Len(s)) :
        \A j \in 1..Len(s) : LowerChar(name[off + j]) = LowerChar(s[j])

Matches(f, s, T) ==
    /\ ContainsNoCase(f[1], s)
    /\ T # <<>> => \E i \in 1..Len(T) : Contains(f[1], T[i])

\* C3: filter_charts(L, s, T) is, in the order of L, exactly the items of L
\* whose name contains s case-insensitively and, when T is non-empty,
\* contains a token of T; with s and T empty it is L.
C3_FilterKeepsExactlyMatches ==
    call.fn = "filter_charts" =>
        /\ call.result = SelectSeq(call.files,
                                   LAMBDA f : Matches(f, call.search_query, call.selected_types))
        /\ (call.search_query = <<>> /\ call.selected_types = <<>>) => call.result = call.files

\* The upper-case query "B" keeps "A_b" for its lower-case "b", and the
\* type filter drops the two other names the query matches.
C3_Witness ==
    /\ call.fn = "filter_charts"
    /\ call.search_query = <<"B">>
    /\ call.selected_types = << <<"A">> >>
    /\ Len(call.files) = 3
    /\ \E i \in 1..3 : call.files[i][1] = <<"B", "_", "1">>
    /\ \E i \in 1..3 : call.files[i][1] = <<"b", "_", "1">>
    /\ Len(call.result) = 1
    /\ call.result[1][1] = <<"A", "_", "b">>

IsPermutation(a, b) ==
    /\ Len(a) = Len(b)
    /\ \E m \in [1..Len(a) -> 1..Len(a)] :
        /\ \A i, j \in 1..Len(a) : i # j => m[i] # m[j]
        /\ \A i \in 1..Len(a) : a[i] = b[m[i]]

\* f may stand before g in the documented direction of the key
InDocumentedOrder(sort_by, f, g) ==
    CASE sort_by = "Name" -> CmpStr(Lower(f[1]), Lower(g[1])) <= 0
      [] sort_by = "Last Modified" -> CmpStr(f[2], g[2]) >= 0
      [] sort_by = "Size" -> f[3] >= g[3]

\* C4: for a non-empty list and a key among Name, Last Modified, Size,
\* sort_files returns a permutation of its input ordered by lower-cased
\* name ascending, by last-modified descending, by size descending.
C4_SortOrdersByKey ==
    (call.fn = "sort_files" /\ call.sort_by \in DOMAIN SORT_KEYS /\ call.files # <<>>) =>
        /\ IsPermutation(call.result, call.files)
        /\ \A i, j \in 1..Len(call.result) :
              i < j => InDocumentedOrder(call.sort_by, call.result[i], call.result[j])

\* Sorting by name moves "a_2" before "B_1", which code-point order would not.
C4_Witness ==
    /\ call.fn = "sort_files"
    /\ call.sort_by = "Name"
    /\ Len(call.files) = 3
    /\ call.files[1][1] = <<"B", "_", "1">>
    /\ call.result[1][1] = <<"a", "_", "2">>
    /\ call.result # call.files

\* C5: sort_files with a key that is none of Name, Last Modified, Size
\* returns the list in its original order and reports a warning.
C5_UnknownKeyKeepsOrderAndWarns ==
    (call.fn = "sort_files" /\ call.sort_by \notin DOMAIN SORT_KEYS) =>
        /\ call.result = call.files
        /\ \E i \in 1..Len(call.shown) : call.shown[i].kind = "warning"

HasText(msg, text) == \E i \in 1..Len(msg.what) : msg.what[i] = text

\* The error condition a report names, read from its texts.
Reported(msg) ==
    IF HasText(msg, "An unexpected error occurred loading chart") THEN "UnexpectedFailure"
    ELSE IF HasText(msg, "Chart file not found at") THEN "MissingFile"
    ELSE IF HasText(msg, "Empty JSON file") THEN "EmptyFile"
    ELSE IF HasText(msg, "Could not decode chart at") \/ HasText(msg, "Expecting value")
        THEN "DecodeFailure"
    ELSE "Other"

\* C9: a nonexistent path reports MissingFile, a zero-byte file EmptyFile,
\* undecodable content DecodeFailure, none as another or as a generic
\* unexpected failure, with either loader.
C9_ThreeDistinctReports ==
    call.fn = "display_chart" =>
        /\ call.cond = "missing" => Reported(call.error) = "MissingFile"
        /\ call.cond = "empty" => Reported(call.error) = "EmptyFile"
        /\ call.cond = "garbage" => Reported(call.error) = "DecodeFailure"

(***************************************************************************)
(* Claims on the dashboard (checked under Spec)                            *)
(***************************************************************************)

\* C1: whenever the filtered list is non-empty, the page index main slices
\* the current page with satisfies
\* page_number * page_size <= len(filtered_files) - 1, so that the current
\* page of a non-empty filtered list is never empty.
C1_PageIndexInRange ==
    cur.filtered # <<>> =>
        /\ cur.page_number * cur.w.page_size <= Len(cur.filtered) - 1
        /\ cur.page # <<>>

\* The charts display_all_charts has rendered in the run under way
Rendered == {i \in 1..Len(out) : out[i].kind = "metadata"}

\* C6: a user can cancel a batch under way: while display_all_charts has
\* rendered some items of the page and others remain, the "Cancel Loading"
\* button is there to clear the flag the loop reads before its next item,
\* so that a batch of 5 cancelled after 2 leaves exactly 2 rendered.
C6_CancelStopsBatch ==
    (pc = "batch" /\ Rendered # {} /\ cur.i <= Len(cur.page)) => ui.cancel = "enabled"

\* C7: init_session_state is idempotent: on a namespace without fields it
\* creates every field of the schema with its default; on a namespace
\* written by any sequence of updates it leaves every field at its value.
C7_InitIsIdempotent ==
    \A d \in Dirs :
        /\ \A key \in Fields :
              init_session_state(ss, get_page_prefix(d))[get_page_prefix(d)][key]
                 = IF ss[get_page_prefix(d)][key] = Absent
                   THEN <<SESSION_STATE_VARS[key]>>
                   ELSE ss[get_page_prefix(d)][key]
        /\ Get(init_session_state(BlankSession, get_page_prefix(d)), get_page_prefix(d),
               "page_size") = 10
        /\ Get(init_session_state(BlankSession, get_page_prefix(d)), get_page_prefix(d),
               "page_number") = 0
        /\ Get(init_session_state(BlankSession, get_page_prefix(d)), get_page_prefix(d),
               "sort_by") = "Size"
        /\ init_session_state(init_session_state(ss, get_page_prefix(d)), get_page_prefix(d))
              = init_session_state(ss, get_page_prefix(d))

\* A search text and a page size, both off their defaults and set by two
\* runs: the later run's init_session_state met the earlier run's value.
C7_Witness ==
    /\ pc = "idle"
    /\ runs >= 3
    /\ sel = <<D1>>
    /\ Get(ss, get_page_prefix(D1), "search_query") = <<"b">>
    /\ Get(ss, get_page_prefix(D1), "page_size") = 5
    /\ ss[get_page_prefix(D2)]["page_size"] = Absent

\* The directory whose dashboard the step under way selects and renders
DirOfStep == IF pc = "run" THEN SelectedDir(cur.ev) ELSE cur.dir

\* C8: distinct chart directories have distinct prefixes, and the writes of
\* a step that selects and renders one directory's dashboard (callbacks and
\* error reports included) leave every other directory's fields unchanged.
C8_OtherNamespacesUnchanged ==
    [][ /\ \A d, e \in Dirs : d # e => get_page_prefix(d) # get_page_prefix(e)
        /\ pc \in {"run", "batch"} =>
              \A d \in Dirs \ {DirOfStep} : ss'[get_page_prefix(d)] = ss[get_page_prefix(d)]
      ]_vars

\* C10: a per-file error does not abort the scan: the file whose stat
\* fails with FileNotFoundError is catalogued with the 'N/A' sentinel, and
\* every file whose metadata is extracted is catalogued in all_files,
\* whatever happens to the others.
C10_ScanSurvivesFileError ==
    (pc = "idle" /\ sel # <<>>) =>
        \A i \in 1..Len(cur.fate) :
            /\ cur.fate[i] = "" =>
                  \E j \in 1..Len(Get(ss, ShownPrefix, "all_files")) :
                      Get(ss, ShownPrefix, "all_files")[j][1] = FilesOf(cur.dir)[i].name
            /\ cur.fate[i] = "FileNotFoundError" =>
                  \E j \in 1..Len(Get(ss, ShownPrefix, "all_files")) :
                      Get(ss, ShownPrefix, "all_files")[j]
                         = << FilesOf(cur.dir)[i].name, <<"N", "/", "A">>, 0,
                              PathStr(cur.dir, FilesOf(cur.dir)[i].name) >>

\* What the pass of the loop over chart_metadata shows last: the chart, or
\* the report of its failure, which names it.
ShownFor(chart_metadata, last) ==
    IF Disk[chart_metadata[4]] = "valid"
    THEN last.kind = "chart" /\ last.msg.name = chart_metadata[1]
    ELSE last.kind = "error" /\ last.msg.name = chart_metadata[1]
         /\ last.msg.what[1] = "Error displaying chart"

\* The names display_all_charts has rendered, in the order shown
RenderedNames == [k \in 1..Cardinality(Rendered) |->
                    out[CHOOSE i \in Rendered : Cardinality({j \in Rendered : j <= i}) = k].msg.name]

\* C11: in batch display the failure of one item (missing, empty or
\* undecodable file) is reported for that item and does not stop the loop:
\* each pass renders the next item of the page, shows its chart or reports
\* its failure, and the loop ends only when every item of the page has been
\* rendered, in order.
C11_BatchContinuesAfterFailure ==
    [][ pc = "batch" =>
          IF pc' = "batch"
          THEN /\ Len(out') = Len(out) + 2
               /\ SubSeq(out', 1, Len(out)) = out
               /\ out'[Len(out) + 1].kind = "metadata"
               /\ out'[Len(out) + 1].msg.name = cur.page[cur.i][1]
               /\ ShownFor(cur.page[cur.i], out'[Len(out) + 2])
               /\ cur'.i = cur.i + 1
          ELSE /\ cur.i = Len(cur.page) + 1
               /\ RenderedNames = ChartNames(cur)
      ]_vars

\* The loop has ended on a page of five charts or more, where a chart was
\* shown after the failure of an earlier one had been reported.
C11_Witness ==
    /\ pc = "batch"
    /\ Len(cur.page) >= 5
    /\ cur.i = Len(cur.page) + 1
    /\ \E j, k \in 1..Len(out) :
          /\ j < k
          /\ out[j].kind = "error"
          /\ out[k].kind = "chart"

(***************************************************************************)
(* display_all_charts called on its own, in place of a script run, with    *)
(* the lists, page indices, page sizes and flags a caller may pass.        *)
(***************************************************************************)

\* The catalog of the first directory, as main stores it
CatalogOfD1 == ListMetadata(D1, FilesOf(D1), [i \in 1..Len(FilesOf(D1)) |-> ""]).value

BatchLists == { <<>>, SubSeq(CatalogOfD1, 1, 2), CatalogOfD1 }

\* The store display_all_charts is called on
BatchStore(initialized, page_number, page_size, flag) ==
    [ ss |-> IF initialized
             THEN update_session_state(
                    update_session_state(
                      update_session_state(init_session_state(BlankSession, get_page_prefix(D1)),
                                           get_page_prefix(D1), "page_number", page_number),
                      get_page_prefix(D1), "page_size", page_size),
                    get_page_prefix(D1), "loading_all_charts", flag)
             ELSE BlankSession,
      out |-> <<>> ]

\* The record of a call that ended with the store s
BatchCalled(filtered_files, initialized, s) ==
    [ fn |-> "display_all_charts", files |-> filtered_files, initialized |-> initialized,
      shown |-> s.out,
      loading_all_charts |-> s.ss[get_page_prefix(D1)]["loading_all_charts"] ]

CallDisplayAll ==
    /\ pc = "idle"
    /\ runs = 0
    /\ call = NoCall
    /\ \E L \in BatchLists, initialized \in BOOLEAN, page_number \in 0..2,
          i \in 1..Len(PAGE_SIZES), flag \in BOOLEAN, use_async \in BOOLEAN :
          call' = BatchCalled(L, initialized,
                              display_all_charts(
                                  BatchStore(initialized, page_number, PAGE_SIZES[i], flag),
                                  get_page_prefix(D1), L, use_async))
    /\ pc' = "called"
    /\ UNCHANGED << ss, sel, ui, out, cur, runs >>

NextPasses == Next \/ CallDisplayAll

SpecPasses == Init /\ [][NextPasses]_vars

\* C12: on every exit of display_all_charts (empty list, empty page, loop
\* run to its end, loop left on a cleared flag, exception caught) the
\* loading_all_charts flag of the namespace is False afterwards; and so it
\* is, in every namespace, whenever a script run of main has ended.
C12_FlagFalseAfterEveryExit ==
    /\ call.fn = "display_all_charts" => call.loading_all_charts = <<FALSE>>
    /\ pc = "idle" =>
          \A d \in Dirs : ss[get_page_prefix(d)]["loading_all_charts"] \in {Absent, <<FALSE>>}

\* A script run has ended after display_all_charts rendered a page of five
\* charts or more: the flag main had set is False again.
C12_Witness ==
    /\ pc = "idle"
    /\ sel = <<D1>>
    /\ Cardinality(Rendered) >= 5
    /\ ui.cancel = "disabled"
    /\ Get(ss, get_page_prefix(D1), "loading_all_charts") = FALSE

====
